---- MODULE Spec2Model ----
(***************************************************************************)
(* Question-generation service: the distribution allocator                 *)
(* (utils/helpers.py), the per-type pipelines (services/*_generator.py)    *)
(* and the orchestrator (services/question_generation_service.py).         *)
(*                                                                         *)
(* Proportion weights are exact rationals [num, den]; a proportion map is  *)
(* a sequence of [key, w] entries in the insertion order of the Python     *)
(* dict it stands for.  The source computes with binary floats: rounding   *)
(* of the products is outside this model.                                  *)
(***************************************************************************)
EXTENDS Integers, Sequences, FiniteSets, TLC

\* ------------------------------------------------------------------ bounds
\* largest total_questions drawn by the allocator specification
MaxTotal == 10
\* largest total_questions drawn by the request specification
MaxReqTotal == 4
\* largest number of blocks in one completion
MaxBlocks == 2
\* largest number of fragments a text handed to a parser alone is made of
MaxFragments == 2

\* ------------------------------------------------------------- constants
\* ThreadPoolExecutor(max_workers=3)
MaxWorkers == 3
W(n, d) == [num |-> n, den |-> d]
\* an entry of an input map, its weight written in tenths (0.4 is 4/10)
P(k, n) == [key |-> k, w |-> W(n, 10)]

\* ------------------------------------------------------ generic helpers
Min(a, b) == IF a < b THEN a ELSE b
Max(a, b) == IF a > b THEN a ELSE b

\* F applied to the value of e: e is evaluated once, where an operator's
\* argument is evaluated again at each of its uses
WithValue(F(_), e) == CHOOSE y \in {F(x) : x \in {e}} : TRUE

RECURSIVE SumCounts(_)
SumCounts(s) == IF s = <<>> THEN 0 ELSE s[1].count + SumCounts(Tail(s))

\* sum of a map's weights as a rational [num, den]
RECURSIVE WeightSum(_)
WeightSum(m) ==
    IF m = <<>> THEN W(0, 1)
    ELSE LET r == WeightSum(Tail(m))
         IN W(m[1].w.num * r.den + r.num * m[1].w.den, m[1].w.den * r.den)

SumsToOne(m) == LET s == WeightSum(m) IN s.num = s.den
HasPositive(m) == \E i \in 1..Len(m) : m[i].w.num > 0

\* -------------------------------------------- calculate_question_distribution
\* helpers.py 173-184: the cross product in dict insertion order (type outer,
\* difficulty middle, blooms inner); exact_count kept as exact_num/exact_den,
\* count = int(exact_count)
FractionalDistribution(total_questions, question_type_dist, difficulty_dist, blooms_dist) ==
    LET nq == Len(question_type_dist)
        nd == Len(difficulty_dist)
        nb == Len(blooms_dist)
    IN [i \in 1..(nq * nd * nb) |->
          LET q == question_type_dist[((i - 1) \div (nd * nb)) + 1]
              d == difficulty_dist[(((i - 1) \div nb) % nd) + 1]
              b == blooms_dist[((i - 1) % nb) + 1]
              num == total_questions * q.w.num * d.w.num * b.w.num
              den == q.w.den * d.w.den * b.w.den
          IN [question_type |-> q.key, difficulty |-> d.key, blooms_level |-> b.key,
              exact_num |-> num, exact_den |-> den, count |-> num \div den]]

\* helpers.py 193: the sort key exact_count - count, taken before any unit is
\* awarded, as the numerator over exact_den
FracNum(item) == item.exact_num % item.exact_den

FracGreater(a, b) == FracNum(a) * b.exact_den > FracNum(b) * a.exact_den
FracEqual(a, b) == FracNum(a) * b.exact_den = FracNum(b) * a.exact_den

\* a sort that puts a later key before earlier keys of equal fractional part
InsertKeyTiesReversed(fd, s, k) ==
    LET before == {p \in 1..Len(s) : ~FracGreater(fd[k], fd[s[p]]) /\ ~FracEqual(fd[k], fd[s[p]])}
        n == Cardinality(before)
    IN SubSeq(s, 1, n) \o <<k>> \o SubSeq(s, n + 1, Len(s))

\* helpers.py 191-195: sorted(..., reverse=True) is stable: a key goes after
\* every key already placed whose fractional part is greater or equal
InsertKey(fd, s, k) ==
    LET before == {p \in 1..Len(s) : ~FracGreater(fd[k], fd[s[p]])}
        n == Cardinality(before)
    IN SubSeq(s, 1, n) \o <<k>> \o SubSeq(s, n + 1, Len(s))

RECURSIVE SortedKeysUpTo(_, _)
SortedKeysUpTo(fd, n) ==
    IF n = 0 THEN <<>>
    ELSE WithValue(LAMBDA s : InsertKey(fd, s, n), SortedKeysUpTo(fd, n - 1))

SortedKeys(fd) == SortedKeysUpTo(fd, Len(fd))

\* the remainder pass left out
RemainderDropped(total_questions, fd) == 0

\* helpers.py 187-188
Remainder(total_questions, fd) == total_questions - SumCounts(fd)

\* a remainder pass that hands every unit to the first key of the sorted keys
AwardRemainderToFirst(total_questions, fd) ==
    LET r == Remainder(total_questions, fd)
        Award(sk) ==
            [i \in 1..Len(fd) |->
                IF sk # <<>> /\ i = sk[1] /\ r > 0 THEN [fd[i] EXCEPT !.count = @ + r] ELSE fd[i]]
    IN WithValue(Award, SortedKeys(fd))

\* helpers.py 198-200: for i in range(remainder): if i < len(sorted_keys)
AwardRemainder(total_questions, fd) ==
    LET r == Remainder(total_questions, fd)
        Award(sk) ==
            LET awarded == {sk[i] : i \in 1..Min(r, Len(sk))}
            IN [i \in 1..Len(fd) |->
                  IF i \in awarded THEN [fd[i] EXCEPT !.count = @ + 1] ELSE fd[i]]
    IN WithValue(Award, SortedKeys(fd))

\* helpers.py 203-211: zero counts dropped, exact_count dropped
CleanUp(fd) ==
    LET keep == SelectSeq(fd, LAMBDA item : item.count > 0)
    IN [i \in 1..Len(keep) |->
          [question_type |-> keep[i].question_type, difficulty |-> keep[i].difficulty,
           blooms_level |-> keep[i].blooms_level, count |-> keep[i].count]]

calculate_question_distribution(total_questions, question_type_dist, difficulty_dist, blooms_dist) ==
    WithValue(CleanUp,
        WithValue(LAMBDA fd : AwardRemainder(total_questions, fd),
            FractionalDistribution(total_questions, question_type_dist, difficulty_dist, blooms_dist)))

\* ----------------------------------------------------------- input maps
DefaultTypeDist == <<P("mcq", 4), P("fib", 3), P("tf", 3)>>
DefaultDifficultyDist == <<P("basic", 3), P("intermediate", 3), P("advanced", 4)>>
DefaultBloomsDist == <<P("remember", 3), P("apply", 4), P("analyze", 3)>>

AllocTypeDists ==
    { DefaultTypeDist,
      <<P("mcq", 10)>>,
      <<P("mcq", 5), P("tf", 5)>>,
      <<P("mcq", 10), P("fib", 10)>>,
      <<P("mcq", 2), P("fib", 1)>>,
      <<P("mcq", 0), P("tf", 0)>>,
      <<>> }

AllocDifficultyDists ==
    { DefaultDifficultyDist,
      <<P("advanced", 10)>>,
      <<P("basic", 5), P("advanced", 5)>>,
      <<P("basic", 1), P("advanced", 2)>>,
      <<P("basic", 0)>>,
      <<>> }

AllocBloomsDists ==
    { DefaultBloomsDist,
      <<P("analyze", 10)>>,
      <<P("remember", 5), P("analyze", 5)>>,
      <<P("remember", 7), P("apply", 7)>>,
      <<P("remember", 0), P("apply", 0)>>,
      <<>> }

\* -------------------------------------------------- request, exceptions
NoValue == [some |-> FALSE]
Some(v) == [some |-> TRUE, val |-> v]

\* an exception object: its class and str(e) as a sequence of text pieces
Exc(cls, msg) == [cls |-> cls, msg |-> msg]

\* the classes that are subclasses of Exception
ExceptionClasses == {"Exception", "ValueError", "OSError", "RuntimeError"}

SupportedTypes == {"mcq", "fib", "tf"}

ReqTypeDists ==
    { DefaultTypeDist,
      <<P("mcq", 10)>>,
      <<P("mcq", 3), P("fib", 3), P("tf", 3), P("essay", 1)>>,
      <<P("mcq", 0), P("tf", 0)>>,
      <<>> }

ReqDifficultyDists ==
    { <<P("advanced", 10)>>,
      <<P("basic", 5), P("advanced", 5)>> }

ReqBloomsDists ==
    { <<P("analyze", 10)>>,
      DefaultBloomsDist }

ChapterNames == {<<"C", "h", " ", "1">>}
LearningObjectives == {NoValue, Some(<<"L", "O", " ", "1">>)}

\* the requests: a learning-objective tag goes with the requests for one
\* question type, and the request for four question types has one difficulty
\* and one cognitive level
Requests ==
    {r \in [session_id : {"s1"},
            contentId : {"book"},
            chapter_name : ChapterNames,
            learning_objectives : LearningObjectives,
            total_questions : 1..MaxReqTotal,
            question_type_distribution : ReqTypeDists,
            difficulty_distribution : ReqDifficultyDists,
            blooms_taxonomy_distribution : ReqBloomsDists] :
        /\ r.learning_objectives.some => Len(r.question_type_distribution) <= 1
        /\ Len(r.question_type_distribution) > 3 =>
               /\ Len(r.difficulty_distribution) = 1
               /\ Len(r.blooms_taxonomy_distribution) = 1}

\* ------------------------------------------------------------------ state
VARIABLES
    alloc_pc,       \* "input" before the call, "done" after it returned
    alloc_in,       \* arguments of one call of calculate_question_distribution
    alloc_frac,     \* its fractional_distribution after the remainder pass
    alloc_out,      \* its return value
    request,        \* the QuestionGenerationRequest being served
    pc,             \* position of generate_questions
    chapter_content,    \* what retrieve_chapter_content returned
    question_dist,  \* the request-level allocation
    type_groups,    \* question_dist grouped by question type, in dict order
    executor,       \* "none", "open", "shutdown"
    futures,        \* one record per submitted pipeline, in dispatch order
    results,        \* what asyncio.gather returned
    response,       \* the QuestionGenerationResponse returned
    calls,          \* how often each collaborator was called by the orchestrator
    parse_pc,       \* "input" before a parser is called, "done" after it returned
    parse_in,       \* arguments of one call of a parser
    parse_out       \* its return value

vars == <<alloc_pc, alloc_in, alloc_frac, alloc_out, request, pc, chapter_content,
          question_dist, type_groups, executor, futures, results, response, calls,
          parse_pc, parse_in, parse_out>>

parseVars == <<parse_pc, parse_in, parse_out>>

allocVars == <<alloc_pc, alloc_in, alloc_frac, alloc_out>>
reqVars == <<request, pc, chapter_content, question_dist, type_groups, executor,
             futures, results, response, calls>>

NoResponse == [status |-> "none"]
NoCalls == [content |-> 0, allocator |-> 0]

\* ------------------------------------------- the allocator on its own
InitAlloc ==
    /\ alloc_in \in [total_questions : 1..MaxTotal,
                     question_type_dist : AllocTypeDists,
                     difficulty_dist : AllocDifficultyDists,
                     blooms_dist : AllocBloomsDists]
    /\ alloc_pc = "input"
    /\ alloc_frac = <<>>
    /\ alloc_out = <<>>
    /\ request = [total_questions |-> 0]
    /\ pc = "idle"
    /\ chapter_content = NoValue
    /\ question_dist = <<>>
    /\ type_groups = <<>>
    /\ executor = "none"
    /\ futures = <<>>
    /\ results = <<>>
    /\ response = NoResponse
    /\ calls = NoCalls
    /\ parse_pc = "idle"
    /\ parse_in = [question_type |-> "none"]
    /\ parse_out = <<>>

Calculate ==
    /\ alloc_pc = "input"
    /\ alloc_pc' = "done"
    /\ alloc_frac' = AwardRemainder(alloc_in.total_questions,
           FractionalDistribution(alloc_in.total_questions, alloc_in.question_type_dist,
                                  alloc_in.difficulty_dist, alloc_in.blooms_dist))
    /\ alloc_out' = calculate_question_distribution(alloc_in.total_questions,
           alloc_in.question_type_dist, alloc_in.difficulty_dist, alloc_in.blooms_dist)
    /\ UNCHANGED <<alloc_in, reqVars, parseVars>>

NextAlloc == Calculate

SpecAlloc == InitAlloc /\ [][NextAlloc]_vars

\* ----------------------------------------------------- allocator claims
Floor(item) == item.exact_num \div item.exact_den

RECURSIVE SumFloors(_)
SumFloors(s) == IF s = <<>> THEN 0 ELSE Floor(s[1]) + SumFloors(Tail(s))

Awarded(i) == alloc_frac[i].count = Floor(alloc_frac[i]) + 1

\* C1: for every total in 1..100 and any three maps that each hold a positive
\* weight, whatever the weights sum to, the returned counts sum to total.
C1_SumIsTotal ==
    (/\ alloc_pc = "done"
     /\ HasPositive(alloc_in.question_type_dist)
     /\ HasPositive(alloc_in.difficulty_dist)
     /\ HasPositive(alloc_in.blooms_dist))
    => SumCounts(alloc_out) = alloc_in.total_questions

AxesSumToOne ==
    /\ SumsToOne(alloc_in.question_type_dist)
    /\ SumsToOne(alloc_in.difficulty_dist)
    /\ SumsToOne(alloc_in.blooms_dist)

\* C2: when the weights of each axis sum to exactly 1, the counts after the
\* floor step and the remainder pass sum to total.
C2_SumIsTotalWhenNormalised ==
    (alloc_pc = "done" /\ AxesSumToOne)
    => /\ SumCounts(alloc_frac) = alloc_in.total_questions
       /\ SumCounts(alloc_out) = alloc_in.total_questions

\* scenario A: every floor is 0 and the remainder pass hands out all 10
C2_ScenarioA ==
    /\ alloc_pc = "done"
    /\ alloc_in = [total_questions |-> 10, question_type_dist |-> DefaultTypeDist,
                   difficulty_dist |-> DefaultDifficultyDist,
                   blooms_dist |-> DefaultBloomsDist]
    /\ SumFloors(alloc_frac) = 0
    /\ SumCounts(alloc_out) = 10

EntriesOf(axis, label) ==
    SelectSeq(alloc_out, LAMBDA e :
        CASE axis = "question_type" -> e.question_type = label
          [] axis = "difficulty" -> e.difficulty = label
          [] OTHER -> e.blooms_level = label)

\* the axes: the map of each and the number of combinations of the cross
\* product one of its labels takes part in
Axes ==
    { [name |-> "question_type", dist |-> alloc_in.question_type_dist,
       combinations |-> Len(alloc_in.difficulty_dist) * Len(alloc_in.blooms_dist)],
      [name |-> "difficulty", dist |-> alloc_in.difficulty_dist,
       combinations |-> Len(alloc_in.question_type_dist) * Len(alloc_in.blooms_dist)],
      [name |-> "blooms_level", dist |-> alloc_in.blooms_dist,
       combinations |-> Len(alloc_in.question_type_dist) * Len(alloc_in.difficulty_dist)] }

\* |sum of the counts of a label - total * weight of the label| < bound, in
\* exact arithmetic
DeviationBelow(axis, k, bound) ==
    LET w == axis.dist[k].w
        d == SumCounts(EntriesOf(axis.name, axis.dist[k].key)) * w.den
                 - alloc_in.total_questions * w.num
    IN d < bound * w.den /\ -d < bound * w.den

\* C26 as stated: with the weights of each axis summing to 1, the counts of
\* every label of an axis sum to less than 1 away from total * weight
C26_AxisSumsWithinOne ==
    (alloc_pc = "done" /\ AxesSumToOne) =>
        \A axis \in Axes : \A k \in 1..Len(axis.dist) : DeviationBelow(axis, k, 1)

\* C26 as amended: with the weights of each axis summing to 1, the counts of
\* every label of an axis sum to less than N away from total * weight, N the
\* number of combinations the label takes part in
C26_AxisSumsWithinCombinations ==
    (alloc_pc = "done" /\ AxesSumToOne) =>
        \A axis \in Axes : \A k \in 1..Len(axis.dist) :
            DeviationBelow(axis, k, axis.combinations)

\* scenario A: a label whose counts are 1 or more away from total * weight
C26_LabelOffByOneOrMore ==
    /\ alloc_pc = "done"
    /\ AxesSumToOne
    /\ alloc_in.total_questions = 10
    /\ alloc_in.question_type_dist = DefaultTypeDist
    /\ alloc_in.difficulty_dist = DefaultDifficultyDist
    /\ alloc_in.blooms_dist = DefaultBloomsDist
    /\ \E axis \in Axes : \E k \in 1..Len(axis.dist) : ~DeviationBelow(axis, k, 1)

\* ------------------------------------------------------------ pipelines
\* first-seen order of the values of a sequence (insertion order of dict keys)
RECURSIVE FirstSeen(_)
FirstSeen(s) ==
    IF s = <<>> THEN <<>>
    ELSE LET r == FirstSeen(SubSeq(s, 1, Len(s) - 1))
             x == s[Len(s)]
         IN IF \E i \in 1..Len(r) : r[i] = x THEN r ELSE Append(r, x)

\* a grouping that opens a group for every entry
group_by_entry(qdist) ==
    [g \in 1..Len(qdist) |-> [question_type |-> qdist[g].question_type, configs |-> <<qdist[g]>>]]

\* question_generation_service.py 159-167
group_by_question_type(qdist) ==
    LET types == FirstSeen([i \in 1..Len(qdist) |-> qdist[i].question_type])
    IN [g \in 1..Len(types) |->
          [question_type |-> types[g],
           configs |-> SelectSeq(qdist, LAMBDA c : c.question_type = types[g])]]

\* marginals that sum to one half
difficulty_dist_halved(configs) ==
    LET keys == FirstSeen([i \in 1..Len(configs) |-> configs[i].difficulty])
    IN [k \in 1..Len(keys) |->
          [key |-> keys[k],
           w |-> W(SumCounts(SelectSeq(configs, LAMBDA c : c.difficulty = keys[k])),
                   SumCounts(configs) + SumCounts(configs))]]

\* question_generation_service.py 185-200: count / total_for_type summed per
\* difficulty, keys in first-seen order
difficulty_dist_for_type(configs) ==
    LET keys == FirstSeen([i \in 1..Len(configs) |-> configs[i].difficulty])
    IN [k \in 1..Len(keys) |->
          [key |-> keys[k],
           w |-> W(SumCounts(SelectSeq(configs, LAMBDA c : c.difficulty = keys[k])),
                   SumCounts(configs))]]

\* question_generation_service.py 185-200, the same per blooms level
blooms_dist_for_type(configs) ==
    LET keys == FirstSeen([i \in 1..Len(configs) |-> configs[i].blooms_level])
    IN [k \in 1..Len(keys) |->
          [key |-> keys[k],
           w |-> W(SumCounts(SelectSeq(configs, LAMBDA c : c.blooms_level = keys[k])),
                   SumCounts(configs))]]

\* a sequence that starts with the pairs of the last entry
RECURSIVE sequence_last_entry_first(_)
sequence_last_entry_first(question_breakdown) ==
    IF question_breakdown = <<>> THEN <<>>
    ELSE sequence_last_entry_first(Tail(question_breakdown))
         \o [i \in 1..question_breakdown[1].count |->
                <<question_breakdown[1].difficulty, question_breakdown[1].blooms_level>>]

\* helpers.py 215-228
RECURSIVE create_question_sequence(_)
create_question_sequence(question_breakdown) ==
    IF question_breakdown = <<>> THEN <<>>
    ELSE [i \in 1..question_breakdown[1].count |->
             <<question_breakdown[1].difficulty, question_breakdown[1].blooms_level>>]
         \o create_question_sequence(Tail(question_breakdown))

\* mcq_generator.py 224-238 (fib, tf alike): one guideline block per entry of
\* question_breakdown, in its order
PromptGuidelines(question_breakdown) ==
    [i \in 1..Len(question_breakdown) |->
        [count |-> question_breakdown[i].count,
         difficulty |-> question_breakdown[i].difficulty,
         blooms_level |-> question_breakdown[i].blooms_level]]

\* ----------------------------------------------------- response parsers
\* A text is a sequence of tokens: a delimiter of the output grammar is one
\* token, every other character is a token of its own; "" is <<>>.
Whitespace == {" ", "\n"}
Digits == {"0", "1", "2", "3", "4", "5", "6", "7", "8", "9"}

\* str.strip()
RECURSIVE LStrip(_)
LStrip(s) == IF s # <<>> /\ s[1] \in Whitespace THEN LStrip(Tail(s)) ELSE s

RECURSIVE RStrip(_)
RStrip(s) ==
    IF s # <<>> /\ s[Len(s)] \in Whitespace THEN RStrip(SubSeq(s, 1, Len(s) - 1)) ELSE s

Strip(s) == RStrip(LStrip(s))

\* d in s
Contains(s, d) == \E i \in 1..Len(s) : s[i] = d

\* s.split(d): the pieces between the occurrences of the token d
RECURSIVE Split(_, _)
Split(s, d) ==
    IF ~Contains(s, d) THEN <<s>>
    ELSE LET k == CHOOSE i \in 1..Len(s) : s[i] = d /\ \A j \in 1..(i - 1) : s[j] # d
         IN <<SubSeq(s, 1, k - 1)>> \o Split(SubSeq(s, k + 1, Len(s)), d)

\* '. ' in line
ContainsDotSpace(line) == \E i \in 1..(Len(line) - 1) : line[i] = "." /\ line[i + 1] = " "

\* line.split('. ', 1)[1]
AfterDotSpace(line) ==
    LET k == CHOOSE i \in 1..(Len(line) - 1) :
                 /\ line[i] = "." /\ line[i + 1] = " "
                 /\ \A j \in 1..(i - 1) : ~(line[j] = "." /\ line[j + 1] = " ")
    IN SubSeq(line, k + 2, Len(line))

\* mcq_generator.py 31 (fib 30): split("QUESTION:"); tf_generator.py 32:
\* split("STATEMENT:")
LeadDelimiter(question_type) == IF question_type = "tf" THEN "STATEMENT:" ELSE "QUESTION:"

\* blocks that start at the first leading delimiter: the text before it is
\* left out
BlocksAfterFirstDelimiter(response_text, lead) ==
    LET kept == SelectSeq(Tail(Split(response_text, lead)), LAMBDA b : Strip(b) # <<>>)
    IN [i \in 1..Len(kept) |-> Strip(kept[i])]

\* mcq_generator.py 31, 38 (fib, tf alike): [b.strip() for b in blocks if b.strip()]
Blocks(response_text, lead) ==
    LET kept == SelectSeq(Split(response_text, lead), LAMBDA b : Strip(b) # <<>>)
    IN [i \in 1..Len(kept) |-> Strip(kept[i])]

\* mcq_generator.py 51-53 (fib 49-51, tf 50-52): the stem and the rest
Stem(block) ==
    IF Contains(block, "ANSWER:") THEN Strip(Split(block, "ANSWER:")[1]) ELSE <<>>

AfterStem(block) ==
    IF Contains(block, "ANSWER:") THEN <<"ANSWER:">> \o Split(block, "ANSWER:")[2] ELSE block

HasAnswerAndExplanation(block) == Contains(block, "ANSWER:") /\ Contains(block, "EXPLANATION:")

\* mcq_generator.py 57 (fib 56): split("ANSWER:")[1].split("EXPLANATION:")[0].strip()
AnswerText(block) == Strip(Split(Split(block, "ANSWER:")[2], "EXPLANATION:")[1])

\* mcq_generator.py 58 (fib 68)
AfterAnswer(block) ==
    IF HasAnswerAndExplanation(block)
    THEN <<"EXPLANATION:">> \o Split(block, "EXPLANATION:")[2]
    ELSE block

\* a parser that takes the whole block for the explanation when the
\* delimiter is missing
ExplanationTextOrBlock(block) ==
    IF Contains(block, "EXPLANATION:") THEN Split(block, "EXPLANATION:")[2] ELSE block

\* mcq_generator.py 61-62 (fib 72-73, tf 62-63): the text after EXPLANATION:,
\* nothing when the block has no such delimiter
ExplanationText(block) ==
    IF Contains(block, "EXPLANATION:") THEN Split(block, "EXPLANATION:")[2] ELSE <<>>

\* mcq_generator.py 69-77
DistractorKeys == <<"DISTRACTOR1:", "DISTRACTOR2:", "DISTRACTOR3:">>

Distractor(block, i) ==
    LET rest == Split(block, DistractorKeys[i])[2]
    IN IF i < Len(DistractorKeys) /\ Contains(block, DistractorKeys[i + 1])
       THEN Strip(Split(rest, DistractorKeys[i + 1])[1])
       ELSE Strip(rest)

Distractors(block) ==
    LET present == SelectSeq([i \in 1..Len(DistractorKeys) |-> i],
                             LAMBDA i : Contains(block, DistractorKeys[i]))
    IN [k \in 1..Len(present) |-> Distractor(block, present[k])]

\* mcq_generator.py 39-77: the fields of one block
MCQFields(block) ==
    LET b1 == AfterStem(block)
        b2 == AfterAnswer(b1)
    IN [question |-> Stem(block),
        answer |-> IF HasAnswerAndExplanation(b1) THEN AnswerText(b1) ELSE <<>>,
        explanation |->
            LET explanation_text == ExplanationText(b2)
            IN IF Contains(explanation_text, "DISTRACTOR1:")
               THEN Strip(Split(explanation_text, "DISTRACTOR1:")[1])
               ELSE Strip(explanation_text),
        distractors |-> Distractors(b2)]

\* fib_generator.py 58-66: one answer per non-empty line, a numbered line
\* without what precedes its first '. '
AnswerItem(line) ==
    IF line[1] \in Digits /\ ContainsDotSpace(line) THEN Strip(AfterDotSpace(line)) ELSE line

AnswerLines(answer_text) ==
    LET lines == Split(answer_text, "\n")
        stripped == [i \in 1..Len(lines) |-> Strip(lines[i])]
        kept == SelectSeq(stripped, LAMBDA line : line # <<>>)
    IN [i \in 1..Len(kept) |-> AnswerItem(kept[i])]

\* fib_generator.py 38-74
FIBFields(block) ==
    LET b1 == AfterStem(block)
        b2 == AfterAnswer(b1)
    IN [question |-> Stem(block),
        answer |-> IF HasAnswerAndExplanation(b1) THEN AnswerLines(AnswerText(b1)) ELSE <<>>,
        explanation |-> Strip(ExplanationText(b2))]

\* tf_generator.py 39-64
TFFields(block) ==
    LET b1 == AfterStem(block)
    IN [statement |-> Stem(block),
        answer |-> IF HasAnswerAndExplanation(b1) THEN AnswerText(b1)
                   ELSE IF Contains(b1, "ANSWER:") THEN Strip(Split(b1, "ANSWER:")[2])
                   ELSE <<>>,
        explanation |-> Strip(ExplanationText(b1))]

\* a pairing that starts at the second entry of the sequence
SequenceEntryShifted(question_sequence, i) ==
    IF i + 1 <= Len(question_sequence) THEN question_sequence[i + 1] ELSE <<"", "">>

\* mcq_generator.py 80-84 (fib 77-81, tf 67-71): block i takes entry i of the
\* sequence, a block past its end keeps the two empty strings
SequenceEntry(question_sequence, i) ==
    IF i <= Len(question_sequence) THEN question_sequence[i] ELSE <<"", "">>

\* mcq_generator.py 25-93, fib_generator.py 24-90, tf_generator.py 25-80: one
\* record per block; the models accept every string, so no block is dropped
ParseResponse(question_type, response_text, question_breakdown) ==
    LET blocks == Blocks(response_text, LeadDelimiter(question_type))
        question_sequence == create_question_sequence(question_breakdown)
    IN [i \in 1..Len(blocks) |->
          [question_type |-> question_type,
           fields |-> CASE question_type = "mcq" -> MCQFields(blocks[i])
                        [] question_type = "fib" -> FIBFields(blocks[i])
                        [] OTHER -> TFFields(blocks[i]),
           difficulty |-> SequenceEntry(question_sequence, i)[1],
           blooms_level |-> SequenceEntry(question_sequence, i)[2]]]

\* helpers.py 240: replace(" ", "_").replace("/", "_")
CleanChapterName(chapter_name) ==
    [i \in 1..Len(chapter_name) |->
        IF chapter_name[i] \in {" ", "/"} THEN "_" ELSE chapter_name[i]]

\* helpers.py 243-244: f"{key}{int(prop*100)}" per entry
DistributionStr(dist) ==
    [i \in 1..Len(dist) |-> [key |-> dist[i].key, pct |-> (dist[i].w.num * 100) \div dist[i].w.den]]

\* one suffix for the artifacts of every question type
FilenameSuffixShared(question_type) == "questions"

\* helpers.py 254-259: suffix_map.get(question_type, question_type)
FilenameSuffix(question_type) == IF question_type = "mcq" THEN "mcqs" ELSE question_type

\* helpers.py 230-261
generate_filename(chapter_name, difficulty_distribution, blooms_distribution, question_type, learning_objectives) ==
    [chapter |-> CleanChapterName(chapter_name),
     difficulty_str |-> DistributionStr(difficulty_distribution),
     blooms_str |-> DistributionStr(blooms_distribution),
     lo |-> IF learning_objectives.some /\ learning_objectives.val # <<>>
            THEN <<"l", "o">> \o learning_objectives.val ELSE <<>>,
     suffix |-> FilenameSuffix(question_type),
     ext |-> ".json"]

\* helpers.py 243-244: "_".join of the f"{key}{int(prop*100)}" of a map
RECURSIVE DistributionText(_)
DistributionText(dstr) ==
    IF dstr = <<>> THEN <<>>
    ELSE <<dstr[1].key, ToString(dstr[1].pct)>>
         \o (IF Len(dstr) > 1 THEN <<"_">> ELSE <<>>)
         \o DistributionText(Tail(dstr))

\* helpers.py 246-261: "_".join(filename_parts) + f"_{suffix}.json", the name
\* as the text the sink is given
FilenameText(name) ==
    name.chapter \o <<"_">> \o DistributionText(name.difficulty_str)
    \o <<"_">> \o DistributionText(name.blooms_str)
    \o (IF name.lo # <<>> THEN <<"_">> \o name.lo ELSE <<>>)
    \o <<"_", name.suffix, name.ext>>

\* a pipeline boundary that lets everything but ValueError through
PipelineCatchesValueErrorOnly(cls) == cls = "ValueError"

\* question_generation_service.py 293: except Exception
PipelineCatches(cls) == cls \in ExceptionClasses

\* the futures that are resolved
Finished == {j \in 1..Len(futures) : futures[j].state = "done"}

\* question_generation_service.py 287-297: what the future of a pipeline that
\* ran resolves to; finished is its place in the order of completion
RaiseInPipeline(f, e) ==
    [f EXCEPT !.state = "done",
              !.finished = Cardinality(Finished) + 1,
              !.raised = Some(e),
              !.result = IF PipelineCatches(e.cls)
                         THEN Some([kind |-> "tuple", question_type |-> f.question_type,
                                    file_name |-> NoValue, question_data |-> NoValue,
                                    error |-> Some(e.msg)])
                         ELSE Some([kind |-> "exception", exc |-> e])]

ReturnFromPipeline(f) ==
    [f EXCEPT !.state = "done",
              !.finished = Cardinality(Finished) + 1,
              !.result = Some([kind |-> "tuple", question_type |-> f.question_type,
                               file_name |-> f.filename,
                               question_data |-> Some(f.questions),
                               error |-> NoValue])]

\* question_generation_service.py 183-217: the arguments of run_in_executor
NewFuture(group) ==
    [question_type |-> group.question_type,
     configs |-> group.configs,
     difficulty_distribution |-> difficulty_dist_for_type(group.configs),
     blooms_distribution |-> blooms_dist_for_type(group.configs),
     chapter_content |-> chapter_content,
     content_calls |-> 0,
     state |-> "queued",
     finished |-> 0,
     ran |-> FALSE,
     num_questions |-> 0,
     question_breakdown |-> <<>>,
     prompt |-> <<>>,
     completion |-> NoValue,
     questions |-> <<>>,
     filename |-> NoValue,
     llm_calls |-> 0,
     persist_calls |-> 0,
     raised |-> NoValue,
     result |-> NoValue]

\* --------------------------------------------------------- orchestrator
\* Python truthiness of an optional string or list
Truthy(opt) == opt.some /\ opt.val # <<>>

\* an empty-content check that never fires
ContentMissingNever(text) == FALSE

\* question_generation_service.py 64: if not chapter_content
ContentMissing(text) == text = ""

\* a handler that catches ValueError alone
HandlerCatchesValueErrorOnly(cls) == cls = "ValueError"

\* question_generation_service.py 135: except Exception
HandlerCatches(cls) == cls \in ExceptionClasses

\* an error response that hands out what the loop had collected
ErrorResponseWithPartialData(req, e, files_generated, all_question_data) ==
    [status |-> "error",
     message |-> [template |-> "error", error_message |-> e.msg],
     session_id |-> req.session_id,
     contentId |-> req.contentId,
     chapter_name |-> req.chapter_name,
     learning_objectives |-> req.learning_objectives,
     total_questions |-> req.total_questions,
     question_type_distribution |-> req.question_type_distribution,
     difficulty_distribution |-> req.difficulty_distribution,
     blooms_taxonomy_distribution |-> req.blooms_taxonomy_distribution,
     files_generated |-> files_generated,
     data |-> all_question_data]

\* question_generation_service.py 137-157
ErrorResponse(req, e, files_generated, all_question_data) ==
    [status |-> "error",
     message |-> [template |-> "error", error_message |-> e.msg],
     session_id |-> req.session_id,
     contentId |-> req.contentId,
     chapter_name |-> req.chapter_name,
     learning_objectives |-> req.learning_objectives,
     total_questions |-> req.total_questions,
     question_type_distribution |-> req.question_type_distribution,
     difficulty_distribution |-> req.difficulty_distribution,
     blooms_taxonomy_distribution |-> req.blooms_taxonomy_distribution,
     files_generated |-> <<>>,
     data |-> <<>>]

\* question_generation_service.py 111-133
SuccessResponse(req, groups, files_generated, all_question_data) ==
    [status |-> "success",
     message |-> [template |-> "success", total_questions |-> req.total_questions,
                  question_types |-> Len(groups), chapter |-> req.chapter_name,
                  learning_obj_str |-> IF Truthy(req.learning_objectives)
                                       THEN <<" with learning objectives: ", req.learning_objectives.val>>
                                       ELSE <<>>],
     session_id |-> req.session_id,
     contentId |-> req.contentId,
     chapter_name |-> req.chapter_name,
     learning_objectives |-> req.learning_objectives,
     total_questions |-> req.total_questions,
     question_type_distribution |-> req.question_type_distribution,
     difficulty_distribution |-> req.difficulty_distribution,
     blooms_taxonomy_distribution |-> req.blooms_taxonomy_distribution,
     files_generated |-> files_generated,
     data |-> all_question_data]

\* question_generation_service.py 135-157: the except clause of the handler;
\* an exception it does not catch reaches the caller
Handle(e, files_generated, all_question_data) ==
    IF HandlerCatches(e.cls)
    THEN /\ pc' = "Failed"
         /\ response' = ErrorResponse(request, e, files_generated, all_question_data)
    ELSE /\ pc' = "Raised"
         /\ response' = NoResponse

\* an error message that leaves the question type out
PipelineErrorWithoutType(question_type, error) == Exc("Exception", error)

\* question_generation_service.py 105: Exception(f"Error in {question_type}: {error}")
PipelineError(question_type, error) ==
    Exc("Exception", <<"Error in ", question_type, ": ">> \o error)

\* question_generation_service.py 98-109: the loop over the gathered results
RECURSIVE ProcessResults(_, _, _)
ProcessResults(rs, files_generated, all_question_data) ==
    IF rs = <<>>
    THEN [raised |-> NoValue, files_generated |-> files_generated,
          all_question_data |-> all_question_data]
    ELSE LET result == rs[1]
         IN IF result.kind = "exception"
            THEN [raised |-> Some(result.exc), files_generated |-> files_generated,
                  all_question_data |-> all_question_data]
            ELSE IF Truthy(result.error)
            THEN [raised |-> Some(PipelineError(result.question_type, result.error.val)),
                  files_generated |-> files_generated,
                  all_question_data |-> all_question_data]
            ELSE ProcessResults(Tail(rs),
                     IF result.file_name.some
                     THEN Append(files_generated, result.file_name.val)
                     ELSE files_generated,
                     Append(all_question_data,
                            [question_type |-> result.question_type,
                             question_data |-> result.question_data]))

Init ==
    /\ request \in Requests
    /\ pc = "FetchingContent"
    /\ chapter_content = NoValue
    /\ question_dist = <<>>
    /\ type_groups = <<>>
    /\ executor = "none"
    /\ futures = <<>>
    /\ results = <<>>
    /\ response = NoResponse
    /\ calls = NoCalls
    /\ alloc_pc = "idle"
    /\ alloc_in = [total_questions |-> 0]
    /\ alloc_frac = <<>>
    /\ alloc_out = <<>>
    /\ parse_pc = "idle"
    /\ parse_in = [question_type |-> "none"]
    /\ parse_out = <<>>

\* what the content store can answer: text, nothing, or an exception
ContentOutcomes ==
    { [kind |-> "text", text |-> "chapter text"],
      [kind |-> "text", text |-> ""],
      [kind |-> "raise", exc |-> Exc("Exception", <<"Search error in index">>)] }

\* question_generation_service.py 57-65
FetchContent ==
    /\ pc = "FetchingContent"
    /\ calls' = [calls EXCEPT !.content = @ + 1]
    /\ \E outcome \in ContentOutcomes :
          IF outcome.kind = "raise"
          THEN /\ Handle(outcome.exc, <<>>, <<>>)
               /\ UNCHANGED chapter_content
          ELSE /\ chapter_content' = Some(outcome.text)
               /\ IF ContentMissing(outcome.text)
                  THEN Handle(Exc("ValueError", <<"No content found for chapter">>), <<>>, <<>>)
                  ELSE pc' = "Allocating" /\ UNCHANGED response
    /\ UNCHANGED <<request, question_dist, type_groups, executor, futures, results, allocVars, parseVars>>

\* question_generation_service.py 71-81
Allocate ==
    /\ pc = "Allocating"
    /\ calls' = [calls EXCEPT !.allocator = @ + 1]
    /\ question_dist' = calculate_question_distribution(request.total_questions,
           request.question_type_distribution, request.difficulty_distribution,
           request.blooms_taxonomy_distribution)
    /\ type_groups' = group_by_question_type(question_dist')
    /\ pc' = "Dispatching"
    /\ UNCHANGED <<request, chapter_content, executor, futures, results, response, allocVars, parseVars>>

\* question_generation_service.py 179-217
Dispatch ==
    /\ pc = "Dispatching"
    /\ executor' = "open"
    /\ futures' = [g \in 1..Len(type_groups) |-> NewFuture(type_groups[g])]
    /\ pc' = "AwaitingPipelines"
    /\ UNCHANGED <<request, chapter_content, question_dist, type_groups, results, response,
                   calls, allocVars, parseVars>>

\* the pipelines a worker thread is executing
Busy == {j \in 1..Len(futures) : futures[j].state \in {"running", "calling", "persisting"}}

\* a pool that starts a thread for every submitted task
WorkerFreeAlways(busy) == TRUE

\* a pool whose threads are not handed back when their pipeline has ended
WorkerNeverReleased(busy) ==
    Cardinality(busy \cup {j \in 1..Len(futures) : futures[j].ran /\ futures[j].state = "done"})
        < MaxWorkers

\* question_generation_service.py 179: ThreadPoolExecutor(max_workers=3)
WorkerFree(busy) == Cardinality(busy) < MaxWorkers

\* a pipeline that asks the content store whatever it was handed
PipelineRetrievesAlways(content) == TRUE

\* mcq_generator.py 143 (fib, tf alike): if chapter_content is None
PipelineRetrieves(content) == ~content.some

\* a completion call that is made again after it failed
RetryCompletion(f, e) == [f EXCEPT !.llm_calls = @ + 1]

\* a failed completion call after which the artifact is written all the same
CompletionFailedArtifactWritten(f, e) ==
    RaiseInPipeline([f EXCEPT !.persist_calls = @ + 1], e)

\* mcq_generator.py 178 (fib, tf alike): the exception of the completion call
\* leaves generate_mcqs
CompletionFailed(f, e) == RaiseInPipeline(f, e)

\* a join that returns with the first future that is done
AnyDone(fs) == \E i \in 1..Len(fs) : fs[i].state = "done"

\* question_generation_service.py 221: gather waits for every future
AllDone(fs) == \A i \in 1..Len(fs) : fs[i].state = "done"

pipeVars == <<request, pc, chapter_content, question_dist, type_groups, executor, results,
              response, calls, allocVars, parseVars>>

\* question_generation_service.py 203-216: a free worker thread of the pool
\* takes a submitted pipeline
WorkerTakes(i) ==
    /\ futures[i].state = "queued"
    /\ WorkerFree(Busy)
    /\ futures' = [futures EXCEPT ![i] = [@ EXCEPT !.state = "running", !.ran = TRUE]]
    /\ UNCHANGED pipeVars

\* what the content store can hand to a pipeline that asks it
PipelineContentTexts == {"chapter text", ""}

\* question_generation_service.py 242-285 and mcq_generator.py 133-178 (fib,
\* tf alike): the pipeline up to its completion call
StartPipeline(i) ==
    /\ futures[i].state = "running"
    /\ LET f == futures[i]
           retrieves == f.question_type \in SupportedTypes /\ PipelineRetrieves(f.chapter_content)
           total_for_type == SumCounts(f.configs)
           question_breakdown == calculate_question_distribution(total_for_type,
               <<[key |-> f.question_type, w |-> W(1, 1)]>>,
               f.difficulty_distribution, f.blooms_distribution)
       IN \E text \in (IF retrieves THEN PipelineContentTexts ELSE {f.chapter_content.val}) :
            futures' = [futures EXCEPT ![i] =
              LET g == IF retrieves
                       THEN [f EXCEPT !.content_calls = @ + 1, !.chapter_content = Some(text)]
                       ELSE f
              IN IF g.question_type \notin SupportedTypes
                 THEN RaiseInPipeline(g, Exc("ValueError", <<"Unknown question type: ", g.question_type>>))
                 ELSE IF ContentMissing(text)
                 THEN RaiseInPipeline(g, Exc("ValueError", <<"No content found for chapter">>))
                 ELSE WithValue(LAMBDA breakdown :
                                    [g EXCEPT !.state = "calling",
                                              !.num_questions = total_for_type,
                                              !.question_breakdown = breakdown,
                                              !.prompt = PromptGuidelines(breakdown),
                                              !.llm_calls = @ + 1],
                                question_breakdown)]
    /\ UNCHANGED pipeVars

\* a block as the prompt's output format asks for it (mcq_generator.py 260-266,
\* fib, tf alike)
WellFormedBlock(question_type) ==
    <<LeadDelimiter(question_type), " ", "Q", "\n", "ANSWER:", " ", "A", "\n",
      "EXPLANATION:", " ", "E", "\n">>
    \o (IF question_type = "mcq"
        THEN <<"DISTRACTOR1:", " ", "X", "\n", "DISTRACTOR2:", " ", "Y", "\n",
               "DISTRACTOR3:", " ", "Z", "\n">>
        ELSE <<>>)

RECURSIVE Repeat(_, _)
Repeat(s, n) == IF n = 0 THEN <<>> ELSE s \o Repeat(s, n - 1)

\* what the completion service can answer for one prompt: any number of
\* blocks, whatever number the prompt asked for, or blank text
Completions(question_type) ==
    {Repeat(WellFormedBlock(question_type), n) : n \in 0..MaxBlocks} \cup {<<" ", "\n">>}

\* an empty parse taken for a result
NothingParsedIgnored(questions) == FALSE

\* mcq_generator.py 183, fib_generator.py 180, tf_generator.py 170: if not questions
NothingParsed(questions) == questions = <<>>

\* mcq_generator.py 184, fib_generator.py 181, tf_generator.py 171
NoValidQuestions(question_type) ==
    <<"No valid ",
      CASE question_type = "mcq" -> "MCQs"
        [] question_type = "fib" -> "fill-in-the-blank questions"
        [] OTHER -> "true/false questions",
      " could be parsed from LLM response">>

\* llm_service.py 32-51 and mcq_generator.py 178-193 (fib, tf alike): the
\* completion call ends, the text is parsed, the file name is derived
CompletionReturns(i) ==
    /\ futures[i].state = "calling"
    /\ LET f == futures[i]
       IN \E outcome \in {[kind |-> "raise"]} \cup
                         {[kind |-> "text", text |-> t] : t \in Completions(f.question_type)} :
             futures' = [futures EXCEPT ![i] =
                 IF outcome.kind = "raise"
                 THEN CompletionFailed(f, Exc("Exception", <<"LLM completion error: ", "timeout">>))
                 ELSE LET questions == ParseResponse(f.question_type, outcome.text, f.question_breakdown)
                      IN IF NothingParsed(questions)
                         THEN RaiseInPipeline([f EXCEPT !.completion = Some(outcome.text)],
                                  Exc("ValueError", NoValidQuestions(f.question_type)))
                         ELSE [f EXCEPT !.state = "persisting",
                                        !.completion = Some(outcome.text),
                                        !.questions = questions,
                                        !.filename = Some(generate_filename(request.chapter_name,
                                            f.difficulty_distribution, f.blooms_distribution,
                                            f.question_type, request.learning_objectives)),
                                        !.persist_calls = @ + 1]]
    /\ UNCHANGED pipeVars

\* helpers.py 264-268 and mcq_generator.py 197-212 (fib, tf alike)
PersistReturns(i) ==
    /\ futures[i].state = "persisting"
    /\ \E ok \in BOOLEAN :
          futures' = [futures EXCEPT ![i] =
              IF ok THEN ReturnFromPipeline(futures[i])
              ELSE RaiseInPipeline(futures[i], Exc("OSError", <<"[Errno 13] Permission denied">>))]
    /\ UNCHANGED pipeVars

\* the scheduling layer resolves a future with an exception object of its own
SchedulingFailure(i) ==
    /\ pc = "AwaitingPipelines"
    /\ futures[i].state = "queued"
    /\ futures' = [futures EXCEPT ![i] =
           [@ EXCEPT !.state = "done",
                     !.finished = Cardinality(Finished) + 1,
                     !.result = Some([kind |-> "exception",
                                      exc |-> Exc("RuntimeError", <<"scheduling failure">>)])]]
    /\ UNCHANGED pipeVars

\* results handed over in the order the futures completed
ResultsAsCompleted(fs) ==
    LET done == {j \in 1..Len(fs) : fs[j].state = "done"}
        Earlier(j) == {k \in done : fs[k].finished < fs[j].finished}
    IN [i \in 1..Cardinality(done) |->
           fs[CHOOSE j \in done : Cardinality(Earlier(j)) = i - 1].result.val]

\* question_generation_service.py 221: gather returns the results in the order
\* of the tasks it was given
GatherResults(fs) ==
    LET done == SelectSeq(fs, LAMBDA f : f.state = "done")
    IN [i \in 1..Len(done) |-> done[i].result.val]

\* question_generation_service.py 221-223: gather returns, the with block
\* shuts the executor down
AwaitAll ==
    /\ pc = "AwaitingPipelines"
    /\ AllDone(futures)
    /\ results' = GatherResults(futures)
    /\ executor' = "shutdown"
    /\ pc' = "Assembling"
    /\ UNCHANGED <<request, chapter_content, question_dist, type_groups, futures, response,
                   calls, allocVars, parseVars>>

\* question_generation_service.py 97-133
Assemble ==
    /\ pc = "Assembling"
    /\ LET p == ProcessResults(results, <<>>, <<>>)
       IN IF p.raised.some
          THEN Handle(p.raised.val, p.files_generated, p.all_question_data)
          ELSE /\ pc' = "Succeeded"
               /\ response' = SuccessResponse(request, type_groups, p.files_generated,
                                              p.all_question_data)
    /\ UNCHANGED <<request, chapter_content, question_dist, type_groups, executor, futures,
                   results, calls, allocVars, parseVars>>

Next ==
    \/ FetchContent
    \/ Allocate
    \/ Dispatch
    \/ \E i \in 1..Len(futures) : WorkerTakes(i)
    \/ \E i \in 1..Len(futures) : StartPipeline(i)
    \/ \E i \in 1..Len(futures) : CompletionReturns(i)
    \/ \E i \in 1..Len(futures) : PersistReturns(i)
    \/ \E i \in 1..Len(futures) : SchedulingFailure(i)
    \/ AwaitAll
    \/ Assemble

Spec == Init /\ [][Next]_vars

\* What the scheduling guarantees: the coordinator coroutine runs on when the
\* call it awaits has returned (question_generation_service.py 54-133, 221),
\* a worker thread of the pool that is free takes a submitted pipeline and
\* runs it on (179, 203-216), and the content store, the completion service
\* and the file system answer every call: while one of these steps can be
\* taken, one of them is taken.  Nothing obliges the scheduling layer to fail.
Progress ==
    \/ FetchContent
    \/ Allocate
    \/ Dispatch
    \/ \E i \in 1..Len(futures) : WorkerTakes(i)
    \/ \E i \in 1..Len(futures) : StartPipeline(i)
    \/ \E i \in 1..Len(futures) : CompletionReturns(i)
    \/ \E i \in 1..Len(futures) : PersistReturns(i)
    \/ AwaitAll
    \/ Assemble

Fairness == WF_vars(Progress)

FairSpec == Init /\ [][Next]_vars /\ Fairness

\* ---------------------------------------------- the parsers on their own
\* pieces of completion text: blocks in and out of the output format, text
\* without a leading delimiter, blank text
Fragments(lead) ==
    { <<lead, " ", "Q", "\n", "ANSWER:", " ", "A", "\n", "EXPLANATION:", " ", "E", "\n">>,
      <<lead, " ", "R", "\n", "ANSWER:", " ", "B", "\n">>,
      <<lead, " ", "S", "\n", "EXPLANATION:", " ", "F", "\n">>,
      <<lead, " ", "T">>,
      <<lead, " ", "U", "\n", "ANSWER:", " ", "C", "\n", "EXPLANATION:", " ", "G", "\n",
        "DISTRACTOR1:", " ", "X", "\n", "DISTRACTOR2:", " ", "Y", "\n",
        "DISTRACTOR3:", " ", "Z">>,
      <<lead, " ", "V", "\n", "ANSWER:", "\n", "1", ".", " ", "a", "\n", "\n", "b", "\n",
        "EXPLANATION:", " ", "H", "\n">>,
      <<lead, " ", "W", "\n", "ANSWER:", " ", "2", " ", "x", ".", " ", "y", "\n",
        "EXPLANATION:", " ", "I", "\n">>,
      <<lead, " ", "\n">>,
      <<"p", " ">>,
      <<" ", "\n">> }

RECURSIVE Concat(_)
Concat(ss) == IF ss = <<>> THEN <<>> ELSE ss[1] \o Concat(Tail(ss))

Texts(lead) ==
    {Concat(fs) : fs \in UNION {[1..n -> Fragments(lead)] : n \in 0..MaxFragments}}

\* allocations of one type, of total 0 to 3
ParseBreakdowns ==
    { <<>>,
      <<[question_type |-> "t", difficulty |-> "basic", blooms_level |-> "remember", count |-> 1]>>,
      <<[question_type |-> "t", difficulty |-> "basic", blooms_level |-> "remember", count |-> 1],
        [question_type |-> "t", difficulty |-> "advanced", blooms_level |-> "analyze", count |-> 1]>>,
      <<[question_type |-> "t", difficulty |-> "basic", blooms_level |-> "apply", count |-> 2],
        [question_type |-> "t", difficulty |-> "advanced", blooms_level |-> "analyze", count |-> 1]>> }

InitParse ==
    /\ parse_in \in UNION {[question_type : {t}, response_text : Texts(LeadDelimiter(t)),
                             question_breakdown : ParseBreakdowns] : t \in SupportedTypes}
    /\ parse_pc = "input"
    /\ parse_out = <<>>
    /\ request = [total_questions |-> 0]
    /\ pc = "idle"
    /\ chapter_content = NoValue
    /\ question_dist = <<>>
    /\ type_groups = <<>>
    /\ executor = "none"
    /\ futures = <<>>
    /\ results = <<>>
    /\ response = NoResponse
    /\ calls = NoCalls
    /\ alloc_pc = "idle"
    /\ alloc_in = [total_questions |-> 0]
    /\ alloc_frac = <<>>
    /\ alloc_out = <<>>

\* one call of parse_mcq_response, parse_fib_response or parse_tf_response
Parse ==
    /\ parse_pc = "input"
    /\ parse_pc' = "done"
    /\ parse_out' = ParseResponse(parse_in.question_type, parse_in.response_text,
                                  parse_in.question_breakdown)
    /\ UNCHANGED <<parse_in, reqVars, allocVars>>

NextParse == Parse

SpecParse == InitParse /\ [][NextParse]_vars

\* ------------------------------------------------------- request claims
Terminal == pc \in {"Succeeded", "Failed"}

\* the (count, difficulty, blooms_level) entries of one question type in the
\* request-level allocation
RequestEntries(question_type) ==
    PromptGuidelines(SelectSeq(question_dist, LAMBDA c : c.question_type = question_type))

\* C3: the entries a type's pipeline renders into its prompt and expands into
\* its sequence are the request-level entries of that type, same order, same
\* counts.
C3_PipelineUsesRequestAllocation ==
    \A i \in 1..Len(futures) :
        futures[i].llm_calls > 0 =>
            /\ futures[i].prompt = RequestEntries(futures[i].question_type)
            /\ create_question_sequence(futures[i].question_breakdown)
                 = create_question_sequence(RequestEntries(futures[i].question_type))

Degenerate(m) == ~HasPositive(m)

DegenerateRequest ==
    \/ Degenerate(request.question_type_distribution)
    \/ Degenerate(request.difficulty_distribution)
    \/ Degenerate(request.blooms_taxonomy_distribution)

\* C4: with an empty or all-zero proportion map the allocator fails instead
\* of returning an allocation, and the request does not end in Succeeded.
C4_DegenerateMapRejected ==
    DegenerateRequest =>
        pc \notin {"Dispatching", "AwaitingPipelines", "Assembling", "Succeeded"}

\* C6: generate_questions never raises to its caller, and what it returns
\* has status "success" or "error".
C6_AlwaysAResponse ==
    /\ pc # "Raised"
    /\ pc = "Succeeded" => response.status = "success"
    /\ pc = "Failed" => response.status = "error"
    /\ response.status \in {"none", "success", "error"}
    /\ response.status = "none" <=> ~Terminal

\* an exception object of the scheduling layer among the gathered results,
\* answered with an error response
C6_SchedulingFailureAnswered ==
    /\ pc = "Failed"
    /\ response.status = "error"
    /\ \E i \in 1..Len(results) : results[i].kind = "exception"

\* C7: a pipeline that ran resolves to a tuple; if it raised, the tuple has
\* the error set and neither questions nor file name; if not, the error is
\* unset and the questions are there.
C7_PipelineErrorsAreData ==
    \A i \in 1..Len(futures) :
        (futures[i].state = "done" /\ futures[i].ran) =>
            LET r == futures[i].result.val
            IN /\ r.kind = "tuple"
               /\ futures[i].raised.some =>
                     /\ Truthy(r.error)
                     /\ r.error.val = futures[i].raised.val.msg
                     /\ ~r.file_name.some
                     /\ ~r.question_data.some
               /\ ~futures[i].raised.some =>
                     /\ ~r.error.some
                     /\ r.question_data.some
                     /\ r.question_data.val # <<>>

RaisedClassMsg(i) ==
    IF futures[i].state = "done" /\ futures[i].raised.some
    THEN futures[i].raised.val.msg[1]
    ELSE ""

\* the four failures of the claim in one request, next to no success
C7_AllFourFailures ==
    /\ Len(futures) = 4
    /\ {RaisedClassMsg(i) : i \in 1..Len(futures)} =
          {"Unknown question type: ", "LLM completion error: ",
           "No valid ",
           "[Errno 13] Permission denied"}

ErrorResults ==
    {i \in 1..Len(results) : results[i].kind = "tuple" /\ Truthy(results[i].error)}

IsPrefix(p, s) == Len(p) <= Len(s) /\ SubSeq(s, 1, Len(p)) = p

\* C8: when a pipeline returns an error and the others succeed, the
\* response has status "error" and its message names the failing type.
C8_PipelineErrorFailsRequest ==
    (/\ Terminal
     /\ ErrorResults # {}
     /\ \A i \in 1..Len(results) : results[i].kind = "tuple")
    => /\ response.status = "error"
       /\ \E i \in ErrorResults :
             IsPrefix(<<"Error in ", results[i].question_type, ": ">>,
                      response.message.error_message)

\* one pipeline failed in its completion call, two succeeded
C8_OneFailedTwoSucceeded ==
    /\ pc = "Failed"
    /\ Len(results) = 3
    /\ Cardinality(ErrorResults) = 1
    /\ \A i \in 1..Len(results) : results[i].kind = "tuple"
    /\ \E i \in ErrorResults : results[i].error.val[1] = "LLM completion error: "

\* C9: an error response has empty data and empty files_generated, and every
\* response echoes the request's fields.
C9_ErrorResponseShape ==
    Terminal =>
        /\ response.status = "error" =>
              (response.data = <<>> /\ response.files_generated = <<>>)
        /\ response.session_id = request.session_id
        /\ response.contentId = request.contentId
        /\ response.chapter_name = request.chapter_name
        /\ response.learning_objectives = request.learning_objectives
        /\ response.total_questions = request.total_questions
        /\ response.question_type_distribution = request.question_type_distribution
        /\ response.difficulty_distribution = request.difficulty_distribution
        /\ response.blooms_taxonomy_distribution = request.blooms_taxonomy_distribution

\* the first pipeline succeeded and wrote its file, a later one failed
C9_FailedAfterASuccess ==
    /\ pc = "Failed"
    /\ Len(results) >= 2
    /\ results[1].kind = "tuple"
    /\ results[1].file_name.some
    /\ ErrorResults # {}
    /\ response.data = <<>>

\* C10: once the content store has returned empty text the request is Failed
\* and nothing was allocated, dispatched or sent to the completion service.
C10_EmptyContentStopsRequest ==
    (chapter_content.some /\ chapter_content.val = "") =>
        /\ pc = "Failed"
        /\ calls.allocator = 0
        /\ question_dist = <<>>
        /\ type_groups = <<>>
        /\ executor = "none"
        /\ futures = <<>>

C10_EmptyContentSeen ==
    /\ chapter_content.some
    /\ chapter_content.val = ""
    /\ pc = "Failed"
    /\ response.status = "error"

\* C11: the content store is called once per request, before anything is
\* dispatched; every pipeline is handed the text that call returned and
\* calls the content store never.
C11_ContentFetchedOnceAndShared ==
    /\ calls.content <= 1
    /\ pc # "FetchingContent" => calls.content = 1
    /\ futures # <<>> => (chapter_content.some /\ calls.content = 1)
    /\ \A i \in 1..Len(futures) :
          /\ futures[i].chapter_content = chapter_content
          /\ futures[i].content_calls = 0

\* three pipelines ran their completion calls on the one text fetched
C11_ThreePipelinesSharedContent ==
    /\ pc = "Succeeded"
    /\ Len(futures) = 3
    /\ calls.content = 1
    /\ \A i \in 1..Len(futures) :
          /\ futures[i].llm_calls = 1
          /\ futures[i].chapter_content = Some("chapter text")

Queued == {j \in 1..Len(futures) : futures[j].state = "queued"}

\* C12: at every moment at most 3 pipelines of the request are executing,
\* however many question types are present; a pipeline beyond that stays
\* queued until a worker is free.
C12_AtMostThreeExecuting ==
    /\ [](Cardinality(Busy) <= MaxWorkers)
    /\ [](\A i \in 1..Len(futures) :
            futures[i].state \in {"queued", "running", "calling", "persisting", "done"})
    /\ [][\A i \in 1..Len(futures) :
             (futures[i].state = "queued" /\ futures'[i].state = "running")
                 => Cardinality(Busy) < MaxWorkers]_vars

\* four question types: three pipelines executing, the fourth waiting
C12_FourthPipelineWaits ==
    /\ Len(futures) = 4
    /\ Cardinality(Busy) = MaxWorkers
    /\ Cardinality(Queued) = 1

\* C14: a completion without a block, empty or blank, makes its pipeline
\* fail with the "No valid ... could be parsed" error of its type; the
\* pipeline never returns an empty list of questions.
C14_ZeroBlocksFailPipeline ==
    \A i \in 1..Len(futures) :
        /\ (futures[i].completion.some
             /\ Blocks(futures[i].completion.val, LeadDelimiter(futures[i].question_type)) = <<>>)
            => /\ futures[i].state = "done"
               /\ futures[i].persist_calls = 0
               /\ futures[i].raised = Some(Exc("ValueError", NoValidQuestions(futures[i].question_type)))
               /\ futures[i].result.val.kind = "tuple"
               /\ futures[i].result.val.error = Some(NoValidQuestions(futures[i].question_type))
               /\ ~futures[i].result.val.question_data.some
        /\ (futures[i].state = "done" /\ futures[i].result.val.kind = "tuple"
             /\ futures[i].result.val.question_data.some)
            => futures[i].result.val.question_data.val # <<>>

\* the three types in one request, each answered with empty or blank text
C14_AllThreeTypesUnparsed ==
    /\ pc = "Failed"
    /\ {futures[i].question_type : i \in 1..Len(futures)} = SupportedTypes
    /\ \A i \in 1..Len(futures) :
          /\ futures[i].completion.some
          /\ futures[i].raised = Some(Exc("ValueError", NoValidQuestions(futures[i].question_type)))
    /\ \E i, j \in 1..Len(futures) :
          futures[i].completion.val = <<>> /\ futures[j].completion.val = <<" ", "\n">>

\* C16: the sequence a type's parser pairs blocks with is as long as the
\* sum of the counts of that type's entries in the request-level allocation,
\* which is the number of questions the type's prompt asks for.
C16_SequenceLengthIsTypeTotal ==
    \A i \in 1..Len(futures) :
        futures[i].llm_calls > 0 =>
            /\ Len(create_question_sequence(futures[i].question_breakdown))
                 = SumCounts(RequestEntries(futures[i].question_type))
            /\ futures[i].num_questions = SumCounts(RequestEntries(futures[i].question_type))
            /\ SumCounts(futures[i].prompt) = futures[i].num_questions

\* a pipeline whose own breakdown differs from the request-level entries of
\* its type and still adds up to the same total
C16_RecomputedBreakdownSameTotal ==
    \E i \in 1..Len(futures) :
        /\ futures[i].llm_calls > 0
        /\ futures[i].num_questions = MaxReqTotal
        /\ futures[i].prompt # RequestEntries(futures[i].question_type)
        /\ Len(create_question_sequence(futures[i].question_breakdown)) = MaxReqTotal

CompletionFailures ==
    {i \in 1..Len(futures) : RaisedClassMsg(i) = "LLM completion error: "}

\* C17: a pipeline calls the completion service at most once; when the call
\* fails the pipeline is over, and the failure is the error of its result.
C17_CompletionCalledOnceNoRetry ==
    \A i \in 1..Len(futures) :
        /\ futures[i].llm_calls <= 1
        /\ futures[i].state \in {"queued", "running"} => futures[i].llm_calls = 0
        /\ i \in CompletionFailures =>
              /\ futures[i].llm_calls = 1
              /\ futures[i].persist_calls = 0
              /\ futures[i].result.val.kind = "tuple"
              /\ futures[i].result.val.error = Some(futures[i].raised.val.msg)

\* every completion call of a request failed, each made once
C17_EveryCompletionFailed ==
    /\ pc = "Failed"
    /\ Len(futures) = 3
    /\ CompletionFailures = 1..Len(futures)
    /\ \A i \in 1..Len(futures) : futures[i].llm_calls = 1

RequestTypes ==
    {request.question_type_distribution[k].key : k \in 1..Len(request.question_type_distribution)}

PipelinesOf(question_type) == {i \in 1..Len(futures) : futures[i].question_type = question_type}

\* C18: once dispatched, there is one pipeline for each type with a positive
\* count in the allocation and none for any other type; a Succeeded response
\* has these types as the keys of data and the pipelines' file names in
\* files_generated, once each, both in dispatch order.
C18_OnePipelinePerAllocatedType ==
    /\ executor # "none" =>
          /\ \A i \in 1..Len(futures) : futures[i].question_type \in RequestTypes
          /\ \A t \in RequestTypes :
                Cardinality(PipelinesOf(t)) = IF SumCounts(RequestEntries(t)) > 0 THEN 1 ELSE 0
    /\ pc = "Succeeded" =>
          /\ [i \in 1..Len(response.data) |-> response.data[i].question_type]
               = [i \in 1..Len(futures) |-> futures[i].question_type]
          /\ response.files_generated = [i \in 1..Len(futures) |-> futures[i].filename.val]
          /\ \A i, j \in 1..Len(response.files_generated) :
                response.files_generated[i] = response.files_generated[j] => i = j

\* three types asked for, one of them allocated nothing: two pipelines, two
\* keys, two files
C18_TwoOfThreeTypesAllocated ==
    /\ pc = "Succeeded"
    /\ Cardinality(RequestTypes) = 3
    /\ Len(futures) = 2
    /\ \E t \in RequestTypes : PipelinesOf(t) = {}
    /\ Len(response.data) = 2
    /\ Len(response.files_generated) = 2

\* characters other than letters and digits that separate words in a name
Separators == {" ", "/", ":", "-", ".", ","}

Normalised(name) == [k \in 1..Len(name) |-> IF name[k] \in Separators THEN "_" ELSE name[k]]

\* C19: the file name is the function generate_filename of the chapter name,
\* the two distributions, the type and the learning-objective tag, and in it
\* every separator of the chapter name and of the tag is an underscore.
C19_SeparatorsBecomeUnderscores ==
    \A i \in 1..Len(futures) :
        futures[i].filename.some =>
            LET name == futures[i].filename.val
            IN /\ name = generate_filename(request.chapter_name,
                              futures[i].difficulty_distribution, futures[i].blooms_distribution,
                              futures[i].question_type, request.learning_objectives)
               /\ name.chapter = Normalised(request.chapter_name)
               /\ Truthy(request.learning_objectives) =>
                     name.lo = <<"l", "o">> \o Normalised(request.learning_objectives.val)

\* C20: the response is assembled only after every dispatched pipeline has
\* finished, and when it is returned the pool of the request is shut down
\* and none of its pipelines is queued or running, whether the request
\* succeeded or failed.
C20_AssembledAfterAllFinished ==
    /\ executor = "open" => pc = "AwaitingPipelines"
    /\ pc \in {"Assembling", "Succeeded", "Failed"} =>
          /\ \A i \in 1..Len(futures) : futures[i].state = "done"
          /\ Busy = {}
          /\ Queued = {}
          /\ executor \in {"none", "shutdown"}
          /\ executor = "none" => (futures = <<>> /\ pc = "Failed" /\ calls.allocator = 0)
    /\ pc \in {"Assembling", "Succeeded"} => executor = "shutdown"

\* the first pipeline failed at once; the response still came after the
\* other two had run to their end
C20_FailedAfterAllFinished ==
    /\ pc = "Failed"
    /\ executor = "shutdown"
    /\ Len(futures) = 3
    /\ futures[1].raised.some
    /\ futures[1].persist_calls = 0
    /\ \A i \in 2..Len(futures) : futures[i].state = "done" /\ futures[i].persist_calls = 1

\* the pipelines of the request that failed: the future holds an exception
\* object or a tuple with an error
FailedPipelines ==
    {i \in 1..Len(futures) :
        /\ futures[i].state = "done"
        /\ \/ futures[i].result.val.kind = "exception"
           \/ Truthy(futures[i].result.val.error)}

\* the message of the error a failed pipeline hands to the request
FailureMessage(i) ==
    LET r == futures[i].result.val
    IN IF r.kind = "exception" THEN r.exc.msg
       ELSE <<"Error in ", futures[i].question_type, ": ">> \o r.error.val

\* C21: when two or more pipelines of a request failed, the response carries
\* one error, the one of the failed pipeline that was dispatched first,
\* whatever the order in which the pipelines completed, and neither data nor
\* file names
C21_FirstDispatchedErrorSurfaces ==
    (Terminal /\ Cardinality(FailedPipelines) >= 2) =>
        LET first == CHOOSE i \in FailedPipelines : \A j \in FailedPipelines : i <= j
        IN /\ response.status = "error"
           /\ response.message.error_message = FailureMessage(first)
           /\ response.data = <<>>
           /\ response.files_generated = <<>>

\* two pipelines failed with different errors and the one dispatched later
\* completed first
C21_LaterDispatchedFailedFirst ==
    /\ Terminal
    /\ \E i, j \in FailedPipelines :
          /\ i < j
          /\ futures[j].finished < futures[i].finished
          /\ FailureMessage(i) # FailureMessage(j)

\* C22: when the content store, the completion service and the file system
\* answer every call, every request reaches Succeeded or Failed: the pool of
\* three workers keeps no pipeline waiting for ever, also when the request
\* has more question types than the pool has workers
C22_EveryRequestAnswered == <>(pc \in {"Succeeded", "Failed"})

\* a request with more pipelines than workers was answered after every one
\* of them had gone through the pool
C22_MorePipelinesThanWorkersAnswered ==
    /\ Terminal
    /\ Len(futures) > MaxWorkers
    /\ \A i \in 1..Len(futures) : futures[i].ran

\* the guideline block of the prompt that covers position p of the sequence:
\* the blocks before it ask for fewer than p questions, with it they ask for
\* p or more
BlockAt(prompt, p) ==
    CHOOSE k \in 1..Len(prompt) :
        /\ SumCounts(SubSeq(prompt, 1, k - 1)) < p
        /\ p <= SumCounts(SubSeq(prompt, 1, k))

\* C25: the sequence of a pipeline holds the (difficulty, cognitive level)
\* pair of each entry of its allocation as many times as the entry's count,
\* in the order of the entries, which is the order and the counts of the
\* guideline blocks of its prompt; the parser hands the pairs to the records
\* in this order
C25_SequenceFollowsPromptOrder ==
    \A i \in 1..Len(futures) :
        futures[i].llm_calls > 0 =>
            LET f == futures[i]
                sequence == create_question_sequence(f.question_breakdown)
            IN /\ Len(f.prompt) = Len(f.question_breakdown)
               /\ Len(sequence) = SumCounts(f.prompt)
               /\ \A p \in 1..Len(sequence) :
                     sequence[p] = <<f.prompt[BlockAt(f.prompt, p)].difficulty,
                                     f.prompt[BlockAt(f.prompt, p)].blooms_level>>
               /\ \A p \in 1..Min(Len(sequence), Len(f.questions)) :
                     <<f.questions[p].difficulty, f.questions[p].blooms_level>> =
                         <<f.prompt[BlockAt(f.prompt, p)].difficulty,
                           f.prompt[BlockAt(f.prompt, p)].blooms_level>>

\* a pipeline whose allocation has two entries or more and whose completion
\* was parsed into two records with different pairs
C25_TwoEntriesTwoRecords ==
    \E i \in 1..Len(futures) :
        LET f == futures[i]
        IN /\ Len(f.question_breakdown) >= 2
           /\ Len(f.questions) = 2
           /\ <<f.questions[1].difficulty, f.questions[1].blooms_level>> #
                 <<f.questions[2].difficulty, f.questions[2].blooms_level>>

\* the question records of a response's data, over all question types
RECURSIVE RecordsIn(_)
RecordsIn(data) ==
    IF data = <<>> THEN 0
    ELSE (IF data[1].question_data.some THEN Len(data[1].question_data.val) ELSE 0)
         + RecordsIn(Tail(data))

\* C27: in a Succeeded response total_questions, and the number the success
\* message gives, is the number of question records the data holds
C27_TotalIsRecordsReturned ==
    pc = "Succeeded" =>
        /\ response.total_questions = RecordsIn(response.data)
        /\ response.message.total_questions = RecordsIn(response.data)

\* the stages of a pipeline in their order: a pipeline moves from a stage to
\* the next one or, when the stage fails, to its end
StageSteps ==
    { <<"queued", "running">>, <<"queued", "done">>,
      <<"running", "calling">>, <<"running", "done">>,
      <<"calling", "persisting">>, <<"calling", "done">>,
      <<"persisting", "done">> }

\* the pipelines that ended because nothing was parsed from the completion
EmptyParses == {i \in 1..Len(futures) : RaisedClassMsg(i) = "No valid "}

\* C28: a pipeline goes through prompt construction, the completion call, the
\* parse and the persistence in this order and a stage runs only when the
\* stages before it succeeded; the sink is called at most once, after the
\* parser returned one record or more; a pipeline ended by a completion error
\* or by an empty parse has persisted nothing
C28_StagesInOrderPersistLast ==
    /\ [](\A i \in 1..Len(futures) :
            LET f == futures[i]
            IN /\ f.llm_calls <= 1 /\ f.persist_calls <= 1
               /\ f.llm_calls = 1 => (f.prompt # <<>> /\ f.state \in {"calling", "persisting", "done"})
               /\ f.completion.some => f.llm_calls = 1
               /\ f.questions # <<>> => f.completion.some
               /\ f.persist_calls = 1 =>
                     (f.questions # <<>> /\ f.filename.some /\ f.state \in {"persisting", "done"})
               /\ f.state = "persisting" => f.persist_calls = 1
               /\ (i \in CompletionFailures \cup EmptyParses) =>
                     (f.persist_calls = 0 /\ f.questions = <<>> /\ ~f.filename.some)
               /\ (f.state = "done" /\ f.llm_calls = 0) => f.persist_calls = 0)
    /\ [][\A i \in 1..Len(futures) :
             (Len(futures') = Len(futures) /\ futures'[i].state # futures[i].state)
                 => <<futures[i].state, futures'[i].state>> \in StageSteps]_vars

\* one request with a pipeline that persisted its records, one ended by a
\* completion error and one ended by an empty parse
C28_PersistedFailedAndEmpty ==
    /\ CompletionFailures # {}
    /\ EmptyParses # {}
    /\ \E i \in 1..Len(futures) :
          /\ futures[i].state = "done"
          /\ ~futures[i].raised.some
          /\ futures[i].persist_calls = 1
          /\ futures[i].llm_calls = 1

\* the pipelines of the request that derived the name of their artifact
Named == {i \in 1..Len(futures) : futures[i].filename.some}

\* C29: the artifact names of two pipelines of a request, which are of
\* different question types, are different texts; the result of a pipeline
\* carries its own question type and its own artifact name, and a step of a
\* pipeline changes the future of this pipeline only
C29_ArtifactNamesDistinct ==
    /\ [](\A i, j \in Named :
            i # j => /\ futures[i].question_type # futures[j].question_type
                     /\ FilenameText(futures[i].filename.val) # FilenameText(futures[j].filename.val))
    /\ [](\A i \in 1..Len(futures) :
            (futures[i].state = "done" /\ futures[i].result.val.kind = "tuple") =>
                /\ futures[i].result.val.question_type = futures[i].question_type
                /\ futures[i].result.val.file_name.some =>
                      futures[i].result.val.file_name = futures[i].filename)
    /\ [](pc = "Succeeded" =>
            \A m, n \in 1..Len(response.files_generated) :
                m # n => FilenameText(response.files_generated[m]) #
                             FilenameText(response.files_generated[n]))
    /\ [][Len(futures') = Len(futures) =>
             Cardinality({i \in 1..Len(futures) : futures'[i] # futures[i]}) <= 1]_vars

\* three pipelines of one request whose artifact names differ in the suffix
\* of the question type only
C29_NamesDifferInSuffixOnly ==
    /\ Cardinality(Named) = 3
    /\ \A i, j \in Named :
          [futures[i].filename.val EXCEPT !.suffix = "any"] =
              [futures[j].filename.val EXCEPT !.suffix = "any"]

\* ---------------------------------------------------------- parser claims
ParseSequence == create_question_sequence(parse_in.question_breakdown)

ParseBlocksIn == Blocks(parse_in.response_text, LeadDelimiter(parse_in.question_type))

\* C13: the record of the i-th surviving block carries entry i of the
\* sequence, or two empty strings past its end; the parse returns one record
\* per block whether the completion has as many blocks as the sequence, more
\* or fewer.
C13_MetadataByPosition ==
    parse_pc = "done" =>
        /\ Len(parse_out) = Len(ParseBlocksIn)
        /\ \A i \in 1..Len(parse_out) :
              IF i <= Len(ParseSequence)
              THEN /\ parse_out[i].difficulty = ParseSequence[i][1]
                   /\ parse_out[i].blooms_level = ParseSequence[i][2]
                   /\ parse_out[i].difficulty # ""
                   /\ parse_out[i].blooms_level # ""
              ELSE /\ parse_out[i].difficulty = ""
                   /\ parse_out[i].blooms_level = ""

\* scenario B: two well-formed blocks and the sequence (basic, remember),
\* (advanced, analyze) give two MCQ records with these pairs in this order
C13_ScenarioB ==
    /\ parse_pc = "done"
    /\ parse_in.question_type = "mcq"
    /\ parse_in.response_text =
          <<"QUESTION:", " ", "Q", "\n", "ANSWER:", " ", "A", "\n", "EXPLANATION:", " ", "E", "\n",
            "QUESTION:", " ", "Q", "\n", "ANSWER:", " ", "A", "\n", "EXPLANATION:", " ", "E", "\n">>
    /\ Len(parse_out) = 2
    /\ <<parse_out[1].difficulty, parse_out[1].blooms_level>> = <<"basic", "remember">>
    /\ <<parse_out[2].difficulty, parse_out[2].blooms_level>> = <<"advanced", "analyze">>
    /\ parse_out[1].fields.question = <<"Q">>
    /\ parse_out[2].fields.explanation = <<"E">>

\* what a parser returns for one block alone
AloneFields(block) ==
    ParseResponse(parse_in.question_type,
                  <<LeadDelimiter(parse_in.question_type)>> \o block, <<>>)[1].fields

\* C15: a block without EXPLANATION: gives a record with an empty
\* explanation; every block of the text gives its record, with the fields it
\* gives when parsed alone.
C15_MissingExplanationIsEmpty ==
    parse_pc = "done" =>
        /\ Len(parse_out) = Len(ParseBlocksIn)
        /\ \A i \in 1..Len(parse_out) :
              /\ ~Contains(ParseBlocksIn[i], "EXPLANATION:")
                    => parse_out[i].fields.explanation = <<>>
              /\ parse_out[i].fields = AloneFields(ParseBlocksIn[i])

\* a block without EXPLANATION: followed by a well-formed one
C15_BlockWithoutExplanation ==
    /\ parse_pc = "done"
    /\ Len(parse_out) = 2
    /\ ~Contains(ParseBlocksIn[1], "EXPLANATION:")
    /\ Contains(ParseBlocksIn[1], "ANSWER:")
    /\ parse_out[1].fields.explanation = <<>>
    /\ parse_out[2].fields.explanation = <<"E">>
    /\ parse_out[2].fields.answer # <<>>

\* the stem of a record: its question, or its statement
StemField(fields) ==
    IF parse_in.question_type = "tf" THEN fields.statement ELSE fields.question

\* C23: a block that lacks exactly one of ANSWER: and EXPLANATION: gives a
\* record in which only the field of the missing delimiter is empty: without
\* EXPLANATION: it has its stem and its answer, without ANSWER: it has its
\* stem and its explanation
C23_OnlyTheMissingFieldIsEmpty ==
    parse_pc = "done" =>
        \A i \in 1..Len(parse_out) :
            LET block == ParseBlocksIn[i]
                fields == parse_out[i].fields
            IN /\ (Contains(block, "ANSWER:") /\ ~Contains(block, "EXPLANATION:")) =>
                     /\ fields.explanation = <<>>
                     /\ StemField(fields) = Strip(Split(block, "ANSWER:")[1])
                     /\ Strip(Split(block, "ANSWER:")[2]) # <<>> => fields.answer # <<>>
               /\ (Contains(block, "EXPLANATION:") /\ ~Contains(block, "ANSWER:")) =>
                     /\ fields.answer = <<>>
                     /\ StemField(fields) = Strip(Split(block, "EXPLANATION:")[1])
                     /\ fields.explanation = Strip(Split(block, "EXPLANATION:")[2])

\* the digits a line begins with
NumberPrefix(line) ==
    Cardinality({k \in 1..Len(line) : \A j \in 1..k : line[j] \in Digits})

\* the line begins with one or more digits immediately followed by '. '
HasNumberPrefix(line) ==
    LET k == NumberPrefix(line)
    IN k >= 1 /\ Len(line) >= k + 2 /\ line[k + 1] = "." /\ line[k + 2] = " "

\* a line without its number prefix, any other line as it is
WithoutNumberPrefix(line) ==
    IF HasNumberPrefix(line) THEN SubSeq(line, NumberPrefix(line) + 3, Len(line)) ELSE line

\* the non-empty lines of an answer text, in order, each without its number
\* prefix
NumberedAnswers(answer_text) ==
    LET lines == Split(answer_text, "\n")
        stripped == [i \in 1..Len(lines) |-> Strip(lines[i])]
        kept == SelectSeq(stripped, LAMBDA line : line # <<>>)
    IN [i \in 1..Len(kept) |-> WithoutNumberPrefix(kept[i])]

\* C24: the answers of a fill-in-the-blank block are the non-empty lines
\* between ANSWER: and EXPLANATION:, in order; a line loses a prefix only when
\* it begins with one or more digits immediately followed by '. ', and loses
\* exactly that prefix; every other line is taken as it is
C24_OnlyNumberPrefixRemoved ==
    (parse_pc = "done" /\ parse_in.question_type = "fib") =>
        \A i \in 1..Len(parse_out) :
            LET block == ParseBlocksIn[i]
            IN (Contains(block, "ANSWER:") /\ Contains(block, "EXPLANATION:")) =>
                  parse_out[i].fields.answer =
                      NumberedAnswers(Split(Split(block, "ANSWER:")[2], "EXPLANATION:")[1])

\* the pieces of the text between the leading delimiters, the text before
\* the first delimiter first
ParsePieces == Split(parse_in.response_text, LeadDelimiter(parse_in.question_type))

\* the pieces that hold more than whitespace
Surviving == SelectSeq(ParsePieces, LAMBDA piece : Strip(piece) # <<>>)

\* the text before the first leading delimiter holds more than whitespace
\* and no delimiter of the grammar
HasPreamble ==
    /\ Strip(ParsePieces[1]) # <<>>
    /\ \A d \in {"ANSWER:", "EXPLANATION:"} \cup {DistractorKeys[k] : k \in 1..Len(DistractorKeys)} :
          ~Contains(ParsePieces[1], d)

\* a record without content
EmptyFields(fields) ==
    /\ StemField(fields) = <<>>
    /\ fields.answer = <<>>
    /\ fields.explanation = <<>>
    /\ parse_in.question_type = "mcq" => fields.distractors = <<>>

====
